---- MODULE Spec2Model ----
(***************************************************************************)
(* Two-stage ranking engine of yardfindmembers: the record repository      *)
(* (profile JSON files), the dual vector index (professional / personal    *)
(* Chroma collections), the candidate retriever, the bounded classifier    *)
(* (TextAnalyzerAgent.smart_analyze) and the rank assembler                *)
(* (TableGenerator.prepare_table_data).                                    *)
(*                                                                         *)
(* Strings that the code inspects character by character (profile names,   *)
(* file names, index ids) are sequences of one-character strings.          *)
(***************************************************************************)
EXTENDS Integers, Sequences, FiniteSets, TLC

VARIABLES files, prof, pers, rank, table,
          log, batch, profile_count, search, judge,
          upsert, call, norm, chat, cache

vars == <<files, prof, pers, rank, table,
          log, batch, profile_count, search, judge,
          upsert, call, norm, chat, cache>>

\* the repository, the index and the calls of the ranking engine
store_vars == <<files, prof, pers, rank, table,
                log, batch, profile_count, search, judge>>
\* concurrent index_profile calls, a rank call in progress, a
\* sanitize_filename call, the chat session and the image cache report
process_vars == <<upsert, call, norm, chat, cache>>

----------------------------------------------------------------------------
(* Bounds *)

\* largest top_k a caller passes in the model
MaxK == 3
\* distances returned by the store are drawn from 1..MaxScore
MaxScore == 2
\* longest history of index_profile / clear_all_indexes calls that is kept
MaxOps == 3
\* longest text given to sanitize_filename on its own
MaxLen == 4
\* longest criteria message a user sends
MaxCriteria == 4

\* k used by search_similar when no _profile_count is cached
DefaultMaxResults == 1000
\* max_length passed by index_profile / default of sanitize_filename
IdMaxLength == 100

----------------------------------------------------------------------------
(* Characters and names *)

WordChars == {"a", "b", "u", "n", "m", "e", "d", "_"}
SepChars == {" ", "-"}

\* the profile names the extraction step can produce in the model:
\* "", "a", "a!" and "b"  ("a" and "a!" normalise to the same identity)
Names == {<<>>, <<"a">>, <<"a", "!">>, <<"b">>}

Unnamed == <<"u", "n", "n", "a", "m", "e", "d">>

Min(a, b) == IF a < b THEN a ELSE b
Max(a, b) == IF a < b THEN b ELSE a

\* s[:n] of Python for any integer n
PyPrefix(s, n) ==
    IF n >= 0 THEN SubSeq(s, 1, Min(n, Len(s)))
              ELSE SubSeq(s, 1, Max(Len(s) + n, 0))

IsKept(c) == c \in WordChars \/ c \in SepChars
IsSep(c) == c \in SepChars

\* re.sub(r'[^\w\s-]', '', text)
RemoveSpecial(s) == SelectSeq(s, IsKept)

RECURSIVE DropSeps(_)
DropSeps(s) ==
    IF s = <<>> THEN <<>>
    ELSE IF IsSep(Head(s)) THEN DropSeps(Tail(s)) ELSE s

\* re.sub(r'[-\s]+', '_', safe_name)
RECURSIVE CollapseSeps(_)
CollapseSeps(s) ==
    IF s = <<>> THEN <<>>
    ELSE IF IsSep(Head(s)) THEN <<"_">> \o CollapseSeps(DropSeps(Tail(s)))
    ELSE <<Head(s)>> \o CollapseSeps(Tail(s))

RECURSIVE LStrip(_)
LStrip(s) ==
    IF s = <<>> THEN <<>>
    ELSE IF Head(s) = "_" THEN LStrip(Tail(s)) ELSE s

RECURSIVE RStrip(_)
RStrip(s) ==
    IF s = <<>> THEN <<>>
    ELSE IF s[Len(s)] = "_" THEN RStrip(SubSeq(s, 1, Len(s) - 1)) ELSE s

\* safe_name.strip('_')
StripUnderscores(s) == RStrip(LStrip(s))

sanitize_filename(text, max_length) ==
    IF text = <<>> THEN Unnamed
    ELSE LET safe == StripUnderscores(
                        PyPrefix(CollapseSeps(RemoveSpecial(text)), max_length))
         IN IF safe # <<>> THEN safe ELSE Unnamed

\* name.replace(" ", "_")
ReplaceSpaces(s) == [i \in 1..Len(s) |-> IF s[i] = " " THEN "_" ELSE s[i]]

----------------------------------------------------------------------------
(* Record repository: config.PROFILES_DIR, one JSON file per saved profile *)

NoFile == [none |-> TRUE]
MemberProfile(n) == [name |-> n]

\* file written for a profile without a name: profile_<timestamp>.json
StampFile == <<"profile_", "ts">>

\* stem of the file save_profile_to_file writes for a profile
ProfileFile(profile) ==
    IF profile.name # <<>> THEN sanitize_filename(profile.name, IdMaxLength)
    ELSE StampFile

FileNames == {ProfileFile(MemberProfile(n)) : n \in Names}

save_profile_to_file(fs, profile) ==
    [fs EXCEPT ![ProfileFile(profile)] = profile]

ExistingFiles(fs) == {f \in FileNames : fs[f] # NoFile}

NoProfile == [notfound |-> TRUE]

\* ProfileLoader.load_by_name: the file named after the name when it exists,
\* otherwise the first file whose "name" field equals the name
load_by_name(fs, name) ==
    LET safe_name == ReplaceSpaces(name)
        byName == {f \in ExistingFiles(fs) : fs[f].name = name}
    IN IF safe_name \in ExistingFiles(fs) THEN fs[safe_name]
       ELSE IF byName # {} THEN fs[CHOOSE f \in byName : TRUE]
       ELSE NoProfile

----------------------------------------------------------------------------
(* Dual vector index *)

NoEntry == [none |-> TRUE]

\* profile_id taken from the name as it is, without sanitize_filename
ProfileIdRawName(profile) == profile.name

\* profile_id of index_profile; the collections prefix it with prof_ / pers_
ProfileId(profile) == sanitize_filename(profile.name, IdMaxLength)

Ids == {ProfileId(MemberProfile(n)) : n \in Names}

Views == {"professional", "personal"}
IndexOutcomes == {"ok", "fail_professional", "fail_personal"}

Document(profile) == [name |-> profile.name]

\* index_profile removing the entry it finds under the id
index_profile_toggle(idx, profile, outcome) ==
    LET id == ProfileId(profile)
        Put(db) == [db EXCEPT ![id] = IF @ = NoEntry THEN Document(profile)
                                      ELSE NoEntry]
    IN [professional |-> IF outcome = "fail_professional" THEN idx.professional
                         ELSE Put(idx.professional),
        personal |-> IF outcome = "ok" THEN Put(idx.personal)
                     ELSE idx.personal]

\* index_profile keeping the entry it finds under the id
index_profile_keep_first(idx, profile, outcome) ==
    LET id == ProfileId(profile)
        Put(db) == [db EXCEPT ![id] = IF @ = NoEntry THEN Document(profile)
                                      ELSE @]
    IN [professional |-> IF outcome = "fail_professional" THEN idx.professional
                         ELSE Put(idx.professional),
        personal |-> IF outcome = "ok" THEN Put(idx.personal)
                     ELSE idx.personal]

\* index_profile: upsert into the professional collection, then into the
\* personal one; a failing add_documents raises and leaves the rest undone
index_profile(idx, profile, outcome) ==
    LET id == ProfileId(profile)
        p1 == IF outcome = "fail_professional" THEN idx.professional
              ELSE [idx.professional EXCEPT ![id] = Document(profile)]
        p2 == IF outcome = "ok"
              THEN [idx.personal EXCEPT ![id] = Document(profile)]
              ELSE idx.personal
    IN [professional |-> p1, personal |-> p2]

Index == [professional |-> prof, personal |-> pers]

Stored(db) == {id \in Ids : db[id] # NoEntry}
count(db) == Cardinality(Stored(db))

----------------------------------------------------------------------------
(* Candidate retriever *)

Scores == 1..MaxScore

\* the orders in which the store can return the stored documents for one
\* query: every document once, by non-decreasing distance
StoreOrders(db, dist) ==
    LET n == count(db)
    IN {o \in [1..n -> Stored(db)] :
          /\ \A i, j \in 1..n : i # j => o[i] # o[j]
          /\ \A i, j \in 1..n : i < j => dist[o[i]] <= dist[o[j]]}

\* db.similarity_search_with_score(query, k): the k nearest documents with
\* their distances, nearest first
similarity_search_with_score(db, dist, order, k) ==
    PyPrefix([i \in 1..Len(order) |->
                 [name |-> db[order[i]].name, score |-> dist[order[i]]]], k)

\* the loop of search_similar over all_results: first hit of each name,
\* hits without a name skipped, at most k kept
RECURSIVE DedupHits(_, _, _, _)
DedupHits(all_results, seen_names, k, profile_scores) ==
    IF all_results = <<>> THEN profile_scores
    ELSE LET hit == Head(all_results)
         IN IF hit.name # <<>> /\ hit.name \notin seen_names
            THEN DedupHits(Tail(all_results), seen_names \cup {hit.name}, k,
                           IF Len(profile_scores) < k
                           THEN Append(profile_scores, hit)
                           ELSE profile_scores)
            ELSE DedupHits(Tail(all_results), seen_names, k, profile_scores)

\* max_results of search_similar; pc is <<>> when the agent has no
\* _profile_count attribute and <<n>> when batch indexing cached n
max_results(pc) == IF pc # <<>> THEN pc[1] ELSE DefaultMaxResults

\* all_results of search_similar: what the store returns for the query
StoreHits(db, dist, order, k, save_all_scores, pc) ==
    IF save_all_scores
    THEN similarity_search_with_score(db, dist, order, max_results(pc))
    ELSE similarity_search_with_score(db, dist, order, k)

search_similar(db, dist, order, k, save_all_scores, pc) ==
    DedupHits(StoreHits(db, dist, order, k, save_all_scores, pc),
              {}, k, <<>>)

\* the retriever smart_analyze calls: search_similar sized to the whole
\* view, on the fresh EmbeddingAgent a TextAnalyzerAgent creates
get_all_profiles_with_scores(db, dist, order) ==
    search_similar(db, dist, order, count(db), TRUE, <<>>)

----------------------------------------------------------------------------
(* Bounded classifier *)

\* what one judge call can do: raise, answer text that is not JSON, answer
\* a JSON object with both fields, or answer the JSON object {}
Replies == {"raise", "not_json", "yes", "no", "no_fields"}
FailedReplies == {"raise", "not_json"}

JudgeText == "reasoning of the judge"
\* f"Ошибка анализа: {str(e)}" of analyze_profile, written in ASCII
ErrorText == "Oshibka analiza: error"

AnalysisResult(name, m, why, score) ==
    [profile_name |-> name, matches |-> m, reasoning |-> why,
     similarity_score |-> score]

\* analyze_profile with the error text left out of the except branch
analyze_profile_silent(profile, reply) ==
    IF reply \in FailedReplies \/ reply = "no_fields"
    THEN AnalysisResult(profile.name, FALSE, "", 0)
    ELSE AnalysisResult(profile.name, reply = "yes", JudgeText, 0)

\* analyze_profile: data.get("matches", False), data.get("reasoning", "");
\* any exception becomes matches=False with the error text
analyze_profile(profile, reply) ==
    IF reply \in FailedReplies
    THEN AnalysisResult(profile.name, FALSE, ErrorText, 0)
    ELSE IF reply = "no_fields"
    THEN AnalysisResult(profile.name, FALSE, "", 0)
    ELSE AnalysisResult(profile.name, reply = "yes", JudgeText, 0)

\* step 3 of smart_analyze: the loop over top_k_for_llm
RECURSIVE ClassifyLoop(_, _, _, _)
ClassifyLoop(top_k_for_llm, fs, reply, acc) ==
    IF top_k_for_llm = <<>> THEN acc
    ELSE LET cand == Head(top_k_for_llm)
             profile == load_by_name(fs, cand.name)
         IN IF profile # NoProfile
            THEN LET result == [analyze_profile(profile, reply[cand.name])
                                  EXCEPT !.similarity_score = cand.score]
                 IN ClassifyLoop(Tail(top_k_for_llm), fs, reply,
                       [results |-> Append(acc.results, result),
                        analyzed_names |-> acc.analyzed_names \cup {cand.name},
                        judged |-> Append(acc.judged, cand.name)])
            ELSE ClassifyLoop(Tail(top_k_for_llm), fs, reply, acc)

\* step 4 without similarity_score=similarity_score (the field's default)
RECURSIVE FillLoopDefaultScore(_, _, _)
FillLoopDefaultScore(all_profiles, analyzed_names, results) ==
    IF all_profiles = <<>> THEN results
    ELSE LET cand == Head(all_profiles)
         IN FillLoopDefaultScore(Tail(all_profiles), analyzed_names,
               IF cand.name \notin analyzed_names
               THEN Append(results, AnalysisResult(cand.name, FALSE, "", 0))
               ELSE results)

\* step 4 of smart_analyze: every candidate that was not analysed
RECURSIVE FillLoop(_, _, _)
FillLoop(all_profiles, analyzed_names, results) ==
    IF all_profiles = <<>> THEN results
    ELSE LET cand == Head(all_profiles)
         IN FillLoop(Tail(all_profiles), analyzed_names,
               IF cand.name \notin analyzed_names
               THEN Append(results,
                           AnalysisResult(cand.name, FALSE, "", cand.score))
               ELSE results)

EmptyRun == [results |-> <<>>, analyzed_names |-> {}, judged |-> <<>>]

\* smart_analyze slicing [:top_k + 1]
smart_analyze_one_more(all_profiles_with_scores, top_k, fs, reply) ==
    LET llm == ClassifyLoop(PyPrefix(all_profiles_with_scores, top_k + 1),
                            fs, reply, EmptyRun)
    IN [results |-> FillLoop(all_profiles_with_scores, llm.analyzed_names,
                             llm.results),
        judged |-> llm.judged]

\* smart_analyze analysing the whole list when top_k is 0
smart_analyze_zero_is_all(all_profiles_with_scores, top_k, fs, reply) ==
    LET llm == ClassifyLoop(IF top_k = 0 THEN all_profiles_with_scores
                            ELSE PyPrefix(all_profiles_with_scores, top_k),
                            fs, reply, EmptyRun)
    IN [results |-> FillLoop(all_profiles_with_scores, llm.analyzed_names,
                             llm.results),
        judged |-> llm.judged]

\* smart_analyze analysing nothing when top_k exceeds the list
smart_analyze_no_clamp(all_profiles_with_scores, top_k, fs, reply) ==
    LET llm == ClassifyLoop(IF top_k > Len(all_profiles_with_scores) THEN <<>>
                            ELSE PyPrefix(all_profiles_with_scores, top_k),
                            fs, reply, EmptyRun)
    IN [results |-> FillLoop(all_profiles_with_scores, llm.analyzed_names,
                             llm.results),
        judged |-> llm.judged]

smart_analyze(all_profiles_with_scores, top_k, fs, reply) ==
    LET top_k_for_llm == PyPrefix(all_profiles_with_scores, top_k)
        llm == ClassifyLoop(top_k_for_llm, fs, reply, EmptyRun)
    IN [results |-> FillLoop(all_profiles_with_scores, llm.analyzed_names,
                             llm.results),
        judged |-> llm.judged]

----------------------------------------------------------------------------
(* Rank assembler *)

\* list.sort(key=similarity_score, reverse=True): stable, largest first
RECURSIVE InsertDesc(_, _)
InsertDesc(sorted, r) ==
    IF sorted = <<>> THEN <<r>>
    ELSE IF Head(sorted).similarity_score >= r.similarity_score
         THEN <<Head(sorted)>> \o InsertDesc(Tail(sorted), r)
         ELSE <<r>> \o sorted

RECURSIVE SortDesc(_, _)
SortDesc(todo, sorted) ==
    IF todo = <<>> THEN sorted
    ELSE SortDesc(Tail(todo), InsertDesc(sorted, Head(todo)))

IsMatch(r) == r.matches
IsNoMatch(r) == ~r.matches

NoTable == [none |-> TRUE]

\* prepare_table_data sorting the whole list by score, without the groups
prepare_table_data_ungrouped(analysis_results, fs) ==
    LET sorted_results == SortDesc(analysis_results, <<>>)
        HasProfile(r) == load_by_name(fs, r.profile_name) # NoProfile
    IN [sorted_results |-> sorted_results,
        rows |-> SelectSeq(sorted_results, HasProfile),
        total_profiles |-> Len(analysis_results),
        matched_profiles |-> Len(SelectSeq(analysis_results, IsMatch))]

prepare_table_data(analysis_results, fs) ==
    LET matched == SortDesc(SelectSeq(analysis_results, IsMatch), <<>>)
        unmatched == SortDesc(SelectSeq(analysis_results, IsNoMatch), <<>>)
        sorted_results == matched \o unmatched
        HasProfile(r) == load_by_name(fs, r.profile_name) # NoProfile
    IN [sorted_results |-> sorted_results,
        rows |-> SelectSeq(sorted_results, HasProfile),
        total_profiles |-> Len(analysis_results),
        matched_profiles |-> Len(matched)]

----------------------------------------------------------------------------
(* State machine *)

NoReply == "none"

IdleRank ==
    [status |-> "idle", store |-> "ok", view |-> "professional", top_k |-> 0,
     candidates |-> <<>>, reply |-> [n \in Names |-> NoReply],
     results |-> <<>>, judged |-> <<>>]

IdleBatch == [status |-> "idle"]
\* a batch run that is not part of reindex --clear
NoClear == [none |-> TRUE]
IdleSearch == [status |-> "idle"]
IdleJudge == [status |-> "idle"]
\* the processes that call index_profile at the same time
Callers == {1, 2}
IdleUpsert ==
    [pc |-> [c \in Callers |-> "idle"],
     profile |-> [c \in Callers |-> NoProfile],
     finished |-> <<>>]
IdleCall == [status |-> "idle"]
IdleNorm == [status |-> "idle"]
\* FSM data after state.clear(): no key is set (a set key holds <<value>>)
NoData == [mode |-> <<>>, top_k |-> <<>>, criteria |-> <<>>]
\* no analysis was confirmed yet
NoRun == [status |-> "idle"]
\* a chat after state.clear(): no state, no data; csv tells whether the CSV
\* file of the latest confirmed analysis is on disk
IdleChat == [state |-> "none", data |-> NoData, run |-> NoRun, csv |-> "none"]
IdleCache == [status |-> "idle"]

EmptyView == [id \in Ids |-> NoEntry]

InitEngine ==
    /\ files = [f \in FileNames |-> NoFile]
    /\ prof = EmptyView
    /\ pers = EmptyView
    /\ rank = IdleRank
    /\ table = NoTable
    /\ log = <<>>
    /\ batch = IdleBatch
    /\ profile_count = <<>>
    /\ search = IdleSearch
    /\ judge = IdleJudge
    /\ upsert = IdleUpsert
    /\ call = IdleCall
    /\ chat = IdleChat
    /\ cache = IdleCache

Init == InitEngine /\ norm = IdleNorm

\* no call is waiting for its caller to take the result
Quiet ==
    /\ rank.status = "idle"
    /\ batch.status = "idle"
    /\ search.status = "idle"
    /\ judge.status = "idle"
    /\ cache.status = "idle"

\* one new image of process_batch_images: the extracted profile is saved,
\* then indexed; an indexing error is caught and only reported
ProcessImage(name, outcome) ==
    /\ Quiet
    /\ files' = save_profile_to_file(files, MemberProfile(name))
    /\ LET idx == index_profile(Index, MemberProfile(name), outcome)
       IN /\ prof' = idx.professional
          /\ pers' = idx.personal
    /\ UNCHANGED <<process_vars, rank, table, log, batch, profile_count, search, judge>>

\* batch_index_all_profiles stopping at the first file that fails
RECURSIVE IndexFilesAbort(_, _, _, _)
IndexFilesAbort(todo, fs, outcome, idx) ==
    IF todo = {} THEN idx
    ELSE LET f == CHOOSE g \in todo : TRUE
         IN IF outcome[f] # "ok" THEN index_profile(idx, fs[f], outcome[f])
            ELSE IndexFilesAbort(todo \ {f}, fs, outcome,
                                 index_profile(idx, fs[f], outcome[f]))

\* batch_index_all_profiles: index_profile for every stored profile file,
\* a failure being confined to its own file
RECURSIVE IndexFiles(_, _, _, _)
IndexFiles(todo, fs, outcome, idx) ==
    IF todo = {} THEN idx
    ELSE LET f == CHOOSE g \in todo : TRUE
         IN IndexFiles(todo \ {f}, fs, outcome,
                       index_profile(idx, fs[f], outcome[f]))

\* indexed_count of batch_index_all_profiles: one more for every file whose
\* index_profile returned
IndexedCount(todo, outcome) == Cardinality({f \in todo : outcome[f] = "ok"})

\* the index_embeddings / reindex command: batch_index_all_profiles on an
\* agent that lives for the command only
batch_index_all_profiles(outcome) ==
    /\ Quiet
    /\ ExistingFiles(files) # {}
    /\ LET idx == IndexFiles(ExistingFiles(files), files, outcome, Index)
       IN /\ prof' = idx.professional
          /\ pers' = idx.personal
    /\ UNCHANGED <<process_vars, files, rank, table, log, batch, profile_count, search,
                   judge>>

\* clear_all_indexes deleting the first id only
ClearViewsFirstId(idx, prof_ok, pers_ok) ==
    LET DropOne(db) == IF Stored(db) = {} THEN db
                       ELSE [db EXCEPT ![CHOOSE id \in Stored(db) : TRUE] =
                                           NoEntry]
    IN [professional |-> IF prof_ok THEN DropOne(idx.professional)
                         ELSE idx.professional,
        personal |-> IF pers_ok THEN DropOne(idx.personal)
                     ELSE idx.personal]

\* the two inner try blocks of clear_all_indexes: a collection is emptied
\* unless reading or deleting its ids raises, which is caught and leaves
\* that collection as it was
ClearViews(idx, prof_ok, pers_ok) ==
    [professional |-> IF prof_ok THEN EmptyView ELSE idx.professional,
     personal |-> IF pers_ok THEN EmptyView ELSE idx.personal]

clear_all_indexes(prof_ok, pers_ok) ==
    /\ Quiet
    /\ LET idx == ClearViews(Index, prof_ok, pers_ok)
       IN /\ prof' = idx.professional
          /\ pers' = idx.personal
    /\ UNCHANGED <<process_vars, files, rank, table, log, batch, profile_count, search,
                   judge>>

CandidateNames(cands) == {cands[i].name : i \in 1..Len(cands)}

\* smart_analyze returning an empty list when the query of step 1 raises
FailedRankSwallowed(view, top_k) ==
    [IdleRank EXCEPT !.status = "done", !.store = "down", !.view = view,
                     !.top_k = top_k]

\* smart_analyze when the query of step 1 raises: nothing encloses the call,
\* so the exception leaves smart_analyze before step 3 and nothing is
\* returned; confirm_analysis catches it and answers with an error message
FailedRank(view, top_k) ==
    [IdleRank EXCEPT !.status = "failed", !.store = "down", !.view = view,
                     !.top_k = top_k]

\* what one analysis leaves: the results of smart_analyze for the
\* candidates cands, the judge answering r for the first top_k of them, and
\* the table made of the results
Analysis(view, top_k, cands, r) ==
    LET answers == r @@ [n \in Names \ DOMAIN r |-> NoReply]
        out == smart_analyze(cands, top_k, files, answers)
        asked == {out.judged[i] : i \in 1..Len(out.judged)}
    IN [rank |-> [status |-> "done", store |-> "ok", view |-> view,
                  top_k |-> top_k, candidates |-> cands,
                  reply |-> [n \in Names |->
                               IF n \in asked THEN answers[n] ELSE NoReply],
                  results |-> out.results,
                  judged |-> out.judged],
        table |-> IF out.results # <<>>
                  THEN prepare_table_data(out.results, files)
                  ELSE NoTable]

\* one analysis: smart_analyze, then the table of its results; store_ok is
\* whether the vector-store query of step 1 returns, r what the judge
\* answers for each of the first top_k candidates
Analyze(view, top_k, store_ok) ==
    /\ Quiet
    /\ IF store_ok
       THEN \E dist \in [Stored(Index[view]) -> Scores] :
            \E order \in StoreOrders(Index[view], dist) :
            \E r \in [CandidateNames(PyPrefix(
                         get_all_profiles_with_scores(Index[view], dist,
                                                      order), top_k))
                      -> Replies] :
               LET done == Analysis(view, top_k,
                                    get_all_profiles_with_scores(
                                       Index[view], dist, order), r)
               IN /\ rank' = done.rank
                  /\ table' = done.table
       ELSE /\ rank' = FailedRank(view, top_k)
            /\ table' = NoTable
    /\ UNCHANGED <<process_vars, files, prof, pers, log, batch, profile_count, search,
                   judge>>

\* the caller is done with the ranking or with its error
Return ==
    /\ rank.status \in {"done", "failed"}
    /\ rank' = IdleRank
    /\ table' = NoTable
    /\ UNCHANGED <<process_vars, files, prof, pers, log, batch, profile_count, search,
                   judge>>

Next ==
    \/ \E name \in Names, outcome \in IndexOutcomes : ProcessImage(name, outcome)
    \/ \E outcome \in [FileNames -> IndexOutcomes] : batch_index_all_profiles(outcome)
    \/ \E prof_ok, pers_ok \in BOOLEAN : clear_all_indexes(prof_ok, pers_ok)
    \/ \E view \in Views, top_k \in 0..MaxK, store_ok \in BOOLEAN :
          Analyze(view, top_k, store_ok)
    \/ Return

Spec == Init /\ [][Next]_vars

----------------------------------------------------------------------------
(* Calls of index_profile and clear_all_indexes with their history *)

\* EmbeddingAgent.index_profile called for a record; the call and the index
\* it leaves are appended to the history
IndexOp(name, outcome) ==
    /\ Quiet
    /\ Len(log) < MaxOps
    /\ LET idx == index_profile(Index, MemberProfile(name), outcome)
       IN /\ prof' = idx.professional
          /\ pers' = idx.personal
          /\ log' = Append(log, [op |-> "index", name |-> name,
                                 outcome |-> outcome, after |-> idx])
    /\ UNCHANGED <<process_vars, files, rank, table, batch, profile_count, search, judge>>

\* EmbeddingAgent.clear_all_indexes, appended to the history
ClearOp(prof_ok, pers_ok) ==
    /\ Quiet
    /\ Len(log) < MaxOps
    /\ LET idx == ClearViews(Index, prof_ok, pers_ok)
       IN /\ prof' = idx.professional
          /\ pers' = idx.personal
          /\ log' = Append(log, [op |-> "clear", prof_ok |-> prof_ok,
                                 pers_ok |-> pers_ok, after |-> idx])
    /\ UNCHANGED <<process_vars, files, rank, table, batch, profile_count, search, judge>>

NextOps ==
    \/ \E name \in Names, outcome \in IndexOutcomes : IndexOp(name, outcome)
    \/ \E prof_ok, pers_ok \in BOOLEAN : ClearOp(prof_ok, pers_ok)

SpecOps == Init /\ [][NextOps]_vars

----------------------------------------------------------------------------
(* process_batch_images over new and already processed images *)

\* one image of process_batch_images whose name is the source_image of the
\* profile file f: ImageAnalyzerAgent returns the stored profile with
\* was_cached set, and the workflow reports it as already indexed without
\* calling index_profile
ProcessCachedImage(f) ==
    /\ Quiet
    /\ files[f] # NoFile
    /\ cache' = [status |-> "reported", profile |-> files[f]]
    /\ UNCHANGED <<store_vars, upsert, call, norm, chat>>

\* the loop of process_batch_images goes on to the next image
CacheReturn ==
    /\ cache.status = "reported"
    /\ cache' = IdleCache
    /\ UNCHANGED <<store_vars, upsert, call, norm, chat>>

NextImages ==
    \/ \E name \in Names, outcome \in IndexOutcomes : ProcessImage(name, outcome)
    \/ \E f \in FileNames : ProcessCachedImage(f)
    \/ CacheReturn

SpecImages == Init /\ [][NextImages]_vars

----------------------------------------------------------------------------
(* smart_analyze call by call: the judge may never answer *)

\* the repository and the index after process_batch_images extracted,
\* saved and indexed the profiles "a" and "b"
TwoFiles ==
    save_profile_to_file(
        save_profile_to_file([f \in FileNames |-> NoFile],
                             MemberProfile(<<"a">>)),
        MemberProfile(<<"b">>))
TwoIndexed ==
    index_profile(
        index_profile([professional |-> EmptyView, personal |-> EmptyView],
                      MemberProfile(<<"a">>), "ok"),
        MemberProfile(<<"b">>), "ok")

InitHang ==
    /\ files = TwoFiles
    /\ prof = TwoIndexed.professional
    /\ pers = TwoIndexed.personal
    /\ rank = IdleRank
    /\ table = NoTable
    /\ log = <<>>
    /\ batch = IdleBatch
    /\ profile_count = <<>>
    /\ search = IdleSearch
    /\ judge = IdleJudge
    /\ upsert = IdleUpsert
    /\ call = IdleCall
    /\ norm = IdleNorm
    /\ chat = IdleChat
    /\ cache = IdleCache

\* steps 1 and 2 of smart_analyze and the slice of step 3
RankCall(view, top_k) ==
    /\ call.status = "idle"
    /\ \E dist \in [Stored(Index[view]) -> Scores] :
       \E order \in StoreOrders(Index[view], dist) :
          call' = [status |-> "looping", top_k |-> top_k,
                   all |-> get_all_profiles_with_scores(Index[view], dist,
                                                        order),
                   todo |-> PyPrefix(get_all_profiles_with_scores(
                                        Index[view], dist, order), top_k),
                   run |-> EmptyRun, reply |-> <<>>, hangs |-> FALSE]
    /\ UNCHANGED <<store_vars, upsert, norm, chat, cache>>

\* the head of the loop of step 3: the record is loaded and, when there is
\* one, analyze_profile sends it to the judge with llm.invoke; hangs tells
\* whether that call never returns
JudgeInvoke(hangs) ==
    /\ call.status = "looping"
    /\ call.todo # <<>>
    /\ call' = IF load_by_name(files, Head(call.todo).name) # NoProfile
               THEN [call EXCEPT !.status = "awaiting", !.hangs = hangs]
               ELSE [call EXCEPT !.todo = Tail(@)]
    /\ UNCHANGED <<store_vars, upsert, norm, chat, cache>>

\* llm.invoke returns or raises, and the rest of the loop body runs
JudgeRespond(reply) ==
    /\ call.status = "awaiting"
    /\ ~call.hangs
    /\ LET cand == Head(call.todo)
           result == [analyze_profile(load_by_name(files, cand.name), reply)
                        EXCEPT !.similarity_score = cand.score]
       IN call' = [call EXCEPT
                     !.status = "looping",
                     !.todo = Tail(@),
                     !.reply = Append(@, reply),
                     !.run = [results |-> Append(@.results, result),
                              analyzed_names |->
                                 @.analyzed_names \cup {cand.name},
                              judged |-> Append(@.judged, cand.name)]]
    /\ UNCHANGED <<store_vars, upsert, norm, chat, cache>>

\* step 4 of smart_analyze and its return
RankReturn ==
    /\ call.status = "looping"
    /\ call.todo = <<>>
    /\ call' = [call EXCEPT
                   !.status = "returned",
                   !.run.results = FillLoop(call.all, call.run.analyzed_names,
                                            call.run.results)]
    /\ UNCHANGED <<store_vars, upsert, norm, chat, cache>>

\* the caller has taken the results
CallTaken ==
    /\ call.status = "returned"
    /\ call' = IdleCall
    /\ UNCHANGED <<store_vars, upsert, norm, chat, cache>>

NextHang ==
    \/ \E view \in Views, top_k \in 0..MaxK : RankCall(view, top_k)
    \/ \E hangs \in BOOLEAN : JudgeInvoke(hangs)
    \/ \E reply \in Replies : JudgeRespond(reply)
    \/ RankReturn
    \/ CallTaken

SpecHang == InitHang /\ [][NextHang]_vars

\* smart_analyze runs in a worker thread that goes on as long as its next
\* statement can run; a judge call that does not hang returns or raises
FairHang ==
    /\ SpecHang
    /\ WF_vars(\E hangs \in BOOLEAN : JudgeInvoke(hangs))
    /\ WF_vars(\E reply \in Replies : JudgeRespond(reply))
    /\ WF_vars(RankReturn)

----------------------------------------------------------------------------
(* The chat bot: one chat's FSM state and data, and its handlers *)

\* the callback data of get_top_k_keyboard that are modelled
TopKChoices == {0, 10}
\* the length below which process_criteria rejects the criteria
MinCriteria == 3
CriteriaTexts == UNION {[1..n -> {"a", " "}] : n \in 0..MaxCriteria}

RECURSIVE LStripBlanks(_)
LStripBlanks(s) ==
    IF s = <<>> THEN <<>>
    ELSE IF Head(s) = " " THEN LStripBlanks(Tail(s)) ELSE s

RECURSIVE RStripBlanks(_)
RStripBlanks(s) ==
    IF s = <<>> THEN <<>>
    ELSE IF s[Len(s)] = " " THEN RStripBlanks(SubSeq(s, 1, Len(s) - 1)) ELSE s

\* str.strip()
strip(s) == RStripBlanks(LStripBlanks(s))

\* data.get(key, default)
get(data, key, default) == IF data[key] = <<>> THEN default ELSE data[key][1]

\* state.clear(): the state and the data are dropped
clear(c) == [c EXCEPT !.state = "none", !.data = NoData]

\* /start
cmd_start ==
    /\ chat' = clear(chat)
    /\ UNCHANGED <<store_vars, upsert, call, norm, cache>>

\* the start_analysis button: in any state, the data are kept
start_analysis ==
    /\ chat' = [chat EXCEPT !.state = "waiting_for_mode"]
    /\ UNCHANGED <<store_vars, upsert, call, norm, cache>>

select_mode(callback_data) ==
    /\ chat.state = "waiting_for_mode"
    /\ LET mode == IF callback_data = "mode_professional" THEN "professional"
                   ELSE "personal"
       IN chat' = [chat EXCEPT !.data.mode = <<mode>>,
                               !.state = "waiting_for_top_k"]
    /\ UNCHANGED <<store_vars, upsert, call, norm, cache>>

select_top_k(top_k) ==
    /\ chat.state = "waiting_for_top_k"
    /\ chat' = [chat EXCEPT !.data.top_k = <<top_k>>,
                            !.state = "waiting_for_criteria"]
    /\ UNCHANGED <<store_vars, upsert, call, norm, cache>>

\* process_criteria accepting every text
criteria_accepted_any(criteria) == TRUE

\* the length check of process_criteria
criteria_accepted(criteria) == Len(criteria) >= MinCriteria

\* a text message while the criteria are awaited: a short one is answered
\* with a complaint and changes nothing
process_criteria(text) ==
    /\ chat.state = "waiting_for_criteria"
    /\ LET criteria == strip(text)
       IN chat' = IF criteria_accepted(criteria)
                  THEN [chat EXCEPT !.data.criteria = <<criteria>>,
                                    !.state = "confirming_analysis"]
                  ELSE chat
    /\ UNCHANGED <<store_vars, upsert, call, norm, cache>>

\* confirm_analysis up to the await of analyze_profiles: the data are read
\* and analyze_profiles is invoked with them; other updates of the chat are
\* handled while the analysis runs, and one analysis at a time is followed
ConfirmStart ==
    /\ chat.state = "confirming_analysis"
    /\ chat.run.status # "analysing"
    /\ chat' = [chat EXCEPT
                   !.run = [status |-> "analysing",
                            invoked_in |-> chat.state,
                            mode |-> get(chat.data, "mode", "professional"),
                            criteria |-> get(chat.data, "criteria", <<>>),
                            top_k |-> get(chat.data, "top_k", 10)],
                   !.csv = "none"]
    /\ UNCHANGED <<store_vars, upsert, call, norm, cache>>

\* what the rest of confirm_analysis can meet
Outcomes ==
    {"analysis_raises", "no_results", "table_raises", "write_raises",
     "send_raises", "sent"}
Raising == {"analysis_raises", "table_raises", "write_raises", "send_raises"}

\* the CSV file after the try block: generate_csv leaves the temporary file
\* once it is created, and os.remove comes after answer_document only
csv_after(outcome) ==
    IF outcome \in {"write_raises", "send_raises"} THEN "on_disk"
    ELSE IF outcome = "sent" THEN "removed"
    ELSE "none"

\* the rest of confirm_analysis: the try block ends with outcome; an
\* exception is reported by editing the status message, and when that fails
\* too the handler ends before state.clear()
ConfirmFinish(outcome, report_ok) ==
    /\ chat.run.status = "analysing"
    /\ outcome \notin Raising => report_ok
    /\ LET ended == [chat EXCEPT !.run = [status |-> "ended",
                                          outcome |-> outcome,
                                          report_ok |-> report_ok],
                                 !.csv = csv_after(outcome)]
       IN chat' = IF report_ok THEN clear(ended) ELSE ended
    /\ UNCHANGED <<store_vars, upsert, call, norm, cache>>

\* the cancel button
cancel_action ==
    /\ chat' = clear(chat)
    /\ UNCHANGED <<store_vars, upsert, call, norm, cache>>

\* the back button
go_back ==
    /\ chat' = IF chat.state = "waiting_for_criteria"
               THEN [chat EXCEPT !.state = "waiting_for_top_k"]
               ELSE IF chat.state = "waiting_for_top_k"
               THEN [chat EXCEPT !.state = "waiting_for_mode"]
               ELSE clear(chat)
    /\ UNCHANGED <<store_vars, upsert, call, norm, cache>>

NextChat ==
    \/ cmd_start
    \/ start_analysis
    \/ \E d \in {"mode_professional", "mode_personal"} : select_mode(d)
    \/ \E k \in TopKChoices : select_top_k(k)
    \/ \E text \in CriteriaTexts : process_criteria(text)
    \/ ConfirmStart
    \/ \E outcome \in Outcomes, report_ok \in BOOLEAN :
          ConfirmFinish(outcome, report_ok)
    \/ cancel_action
    \/ go_back

SpecChat == Init /\ [][NextChat]_vars

\* the event loop goes on running a handler that awaits nothing but calls
\* that return or raise
FairChat ==
    SpecChat /\ WF_vars(\E outcome \in Outcomes, report_ok \in BOOLEAN :
                           ConfirmFinish(outcome, report_ok))

----------------------------------------------------------------------------
(* sanitize_filename on its own *)

\* a letter, an underscore, a blank, a hyphen and a special character
TextChars == {"a", "_", " ", "-", "!"}
Texts == UNION {[1..n -> TextChars] : n \in 0..MaxLen}
\* max_length=50 of the result file names
QueryMaxLength == 50
\* the max_length values the callers pass
MaxLengths == {QueryMaxLength, IdMaxLength}

InitNormalize ==
    /\ InitEngine
    /\ norm \in {[status |-> "called", text |-> t, max_length |-> m,
                    safe_name |-> <<>>] : t \in Texts, m \in MaxLengths}

\* the call returns the normalised text
Normalize ==
    /\ norm.status = "called"
    /\ norm' = [norm EXCEPT !.status = "returned",
                            !.safe_name = sanitize_filename(norm.text,
                                                            norm.max_length)]
    /\ UNCHANGED <<store_vars, upsert, call, chat, cache>>

NextNormalize == Normalize

SpecNormalize == InitNormalize /\ [][NextNormalize]_vars

----------------------------------------------------------------------------
(* index_profile called by two processes at the same time, statement by
   statement *)

\* Chroma.add_documents with one id: the entry under the id is replaced
add_documents(db, profile) ==
    [db EXCEPT ![ProfileId(profile)] = Document(profile)]

\* index_profile up to its first write: the id, the two texts and the
\* metadata are computed from the record
UpsertBegin(c, name) ==
    /\ upsert.pc[c] = "idle"
    /\ upsert' = [upsert EXCEPT !.pc[c] = "professional",
                                !.profile[c] = MemberProfile(name)]
    /\ UNCHANGED <<store_vars, call, norm, chat, cache>>

\* professional_db.add_documents of index_profile; when it raises the call
\* ends without the second write
UpsertProfessional(c, ok) ==
    /\ upsert.pc[c] = "professional"
    /\ prof' = IF ok THEN add_documents(prof, upsert.profile[c]) ELSE prof
    /\ upsert' = [upsert EXCEPT !.pc[c] = IF ok THEN "personal" ELSE "failed"]
    /\ UNCHANGED <<files, pers, rank, table, log, batch, profile_count,
                   search, judge, call, norm, chat, cache>>

\* personal_db.add_documents of index_profile, after which the call returns
UpsertPersonal(c, ok) ==
    /\ upsert.pc[c] = "personal"
    /\ pers' = IF ok THEN add_documents(pers, upsert.profile[c]) ELSE pers
    /\ upsert' = [upsert EXCEPT
                     !.pc[c] = IF ok THEN "done" ELSE "failed",
                     !.finished = IF ok THEN Append(@, c) ELSE @]
    /\ UNCHANGED <<files, prof, rank, table, log, batch, profile_count,
                   search, judge, call, norm, chat, cache>>

NextRace ==
    \/ \E c \in Callers, name \in Names : UpsertBegin(c, name)
    \/ \E c \in Callers, ok \in BOOLEAN : UpsertProfessional(c, ok)
    \/ \E c \in Callers, ok \in BOOLEAN : UpsertPersonal(c, ok)

SpecRace == Init /\ [][NextRace]_vars

----------------------------------------------------------------------------
(* An EmbeddingAgent that the caller keeps: batch indexing and search *)

\* batch_index_all_profiles on an agent the caller keeps: the number of
\* profile files is cached in _profile_count, every file is indexed inside
\* its own try block and the number of files indexed without error returned
BatchRun(outcome) ==
    /\ Quiet
    /\ ExistingFiles(files) # {}
    /\ LET todo == ExistingFiles(files)
           idx == IndexFiles(todo, files, outcome, Index)
       IN /\ prof' = idx.professional
          /\ pers' = idx.personal
          /\ profile_count' = <<Cardinality(todo)>>
          /\ batch' = [status |-> "done", before |-> Index,
                       outcome |-> [f \in todo |-> outcome[f]],
                       indexed_count |-> IndexedCount(todo, outcome),
                       clear |-> NoClear]
    /\ UNCHANGED <<process_vars, files, rank, table, log, search, judge>>

\* batch_index_all_profiles indexing the first profile file only
IndexFilesFirst(todo, fs, outcome, idx) ==
    IF todo = {} THEN idx
    ELSE LET f == CHOOSE g \in todo : TRUE
         IN index_profile(idx, fs[f], outcome[f])

\* the views after every profile file went through index_profile
Reindexed(todo, fs, outcome, idx) == IndexFiles(todo, fs, outcome, idx)

\* the reindex --clear command: clear_all_indexes, then
\* batch_index_all_profiles on the same agent, which lives for the command
\* only; the views the clearing left are kept in before
Reindex(prof_ok, pers_ok, outcome) ==
    /\ Quiet
    /\ LET todo == ExistingFiles(files)
           left == ClearViews(Index, prof_ok, pers_ok)
           idx == Reindexed(todo, files, outcome, left)
       IN /\ prof' = idx.professional
          /\ pers' = idx.personal
          /\ batch' = [status |-> "done", before |-> left,
                       outcome |-> [f \in todo |-> outcome[f]],
                       indexed_count |-> IndexedCount(todo, outcome),
                       clear |-> [prof_ok |-> prof_ok, pers_ok |-> pers_ok]]
    /\ UNCHANGED <<process_vars, files, rank, table, log, profile_count, search, judge>>

\* the caller has taken the count returned by batch_index_all_profiles
BatchReturn ==
    /\ batch.status = "done"
    /\ batch' = IdleBatch
    /\ UNCHANGED <<process_vars, files, prof, pers, rank, table, log, profile_count,
                   search, judge>>

NextBatch ==
    \/ \E name \in Names, outcome \in IndexOutcomes : ProcessImage(name, outcome)
    \/ \E outcome \in [FileNames -> IndexOutcomes] : BatchRun(outcome)
    \/ \E prof_ok, pers_ok \in BOOLEAN,
          outcome \in [FileNames -> IndexOutcomes] :
             Reindex(prof_ok, pers_ok, outcome)
    \/ BatchReturn

SpecBatch == Init /\ [][NextBatch]_vars

\* search_similar(query, search_type, k) with save_all_scores left at its
\* default True, on the agent the caller keeps
AgentSearch(search_type, k) ==
    /\ Quiet
    /\ LET db == Index[search_type]
       IN \E dist \in [Stored(db) -> Scores] :
          \E order \in StoreOrders(db, dist) :
             search' = [status |-> "done", view |-> search_type, k |-> k,
                        size |-> count(db),
                        limit |-> max_results(profile_count),
                        hits |-> StoreHits(db, dist, order, k, TRUE,
                                           profile_count),
                        candidates |-> search_similar(db, dist, order, k,
                                                      TRUE, profile_count)]
    /\ UNCHANGED <<process_vars, files, prof, pers, rank, table, log, batch,
                   profile_count, judge>>

\* the caller has taken the list returned by search_similar
SearchReturn ==
    /\ search.status = "done"
    /\ search' = IdleSearch
    /\ UNCHANGED <<process_vars, files, prof, pers, rank, table, log, batch,
                   profile_count, judge>>

NextAgent ==
    \/ \E name \in Names, outcome \in IndexOutcomes : ProcessImage(name, outcome)
    \/ \E outcome \in [FileNames -> IndexOutcomes] : BatchRun(outcome)
    \/ BatchReturn
    \/ \E search_type \in Views, k \in 1..MaxK : AgentSearch(search_type, k)
    \/ SearchReturn

SpecAgent == Init /\ [][NextAgent]_vars

----------------------------------------------------------------------------
(* The text of a record that analyze_profile sends to the judge *)

\* search_type is a str that neither smart_analyze, analyze_profile nor
\* search_similar validates: the two documented values and any other one
SearchTypes == Views \cup {"other"}

\* texts of a facet in the model: missing, or some text
FacetTexts == {"", "x"}

\* a MemberProfile with the facets the two views are built from
FacetProfiles ==
    [name : Names, expertise : FacetTexts, business : FacetTexts,
     hobbies : FacetTexts, family_status : FacetTexts]

\* 'не указаны' / 'не указано', written in ASCII
NotGiven == "ne ukazano"

\* the collection search_similar queries for a search_type
CollectionOf(search_type) ==
    IF search_type = "professional" THEN "professional" ELSE "personal"

\* the facets _create_professional_text / _create_personal_text put into
\* the text embedded for a view, beside the name
ViewFacets(view) ==
    IF view = "professional" THEN {"business", "expertise", "contacts"}
    ELSE {"hobbies", "family_status"}

\* profile_text of analyze_profile, line by line
profile_text(profile, search_type) ==
    IF search_type = "personal"
    THEN <<[facet |-> "name", text |-> profile.name],
           [facet |-> "hobbies",
            text |-> IF profile.hobbies # "" THEN profile.hobbies
                     ELSE NotGiven],
           [facet |-> "family_status",
            text |-> IF profile.family_status # ""
                     THEN profile.family_status ELSE NotGiven]>>
    ELSE <<[facet |-> "name", text |-> profile.name],
           [facet |-> "expertise", text |-> profile.expertise],
           [facet |-> "business", text |-> profile.business]>>

\* smart_analyze(criteria, search_type, top_k) reaching analyze_profile for
\* a candidate of the collection queried for search_type: the prompt with
\* profile_text is sent to the judge
JudgeCall(search_type, profile) ==
    /\ Quiet
    /\ judge' = [status |-> "sent", search_type |-> search_type,
                 collection |-> CollectionOf(search_type),
                 name |-> profile.name,
                 text |-> profile_text(profile, search_type),
                 result |-> NoReply]
    /\ UNCHANGED <<process_vars, files, prof, pers, rank, table, log, batch,
                   profile_count, search>>

\* the judge's reply is turned into an AnalysisResult
JudgeAnswer(reply) ==
    /\ judge.status = "sent"
    /\ judge' = [judge EXCEPT
                   !.status = "answered",
                   !.result = analyze_profile(MemberProfile(judge.name),
                                              reply)]
    /\ UNCHANGED <<process_vars, files, prof, pers, rank, table, log, batch,
                   profile_count, search>>

JudgeReturn ==
    /\ judge.status = "answered"
    /\ judge' = IdleJudge
    /\ UNCHANGED <<process_vars, files, prof, pers, rank, table, log, batch,
                   profile_count, search>>

NextJudge ==
    \/ \E search_type \in SearchTypes, profile \in FacetProfiles :
          JudgeCall(search_type, profile)
    \/ \E reply \in Replies : JudgeAnswer(reply)
    \/ JudgeReturn

SpecJudge == Init /\ [][NextJudge]_vars

----------------------------------------------------------------------------
(* Properties of one analysis *)

Done == rank.status = "done"
QueriedView == Index[rank.view]
Identity(name) == sanitize_filename(name, IdMaxLength)
TopK == PyPrefix(rank.candidates, rank.top_k)
JudgedNames == {rank.judged[i] : i \in 1..Len(rank.judged)}
Explained == {i \in 1..Len(rank.results) : rank.results[i].reasoning # ""}
RecordMissing(name) == load_by_name(files, name) = NoProfile
NoCallFailed ==
    /\ \A i \in 1..Len(rank.judged) : rank.reply[rank.judged[i]] \notin FailedReplies
    /\ \A j \in 1..Len(TopK) : ~RecordMissing(TopK[j].name)

C3_MissingRecordExplained ==
    Done =>
        \A j \in 1..Len(TopK) :
           RecordMissing(TopK[j].name) =>
              \E i \in 1..Len(rank.results) :
                 /\ rank.results[i].profile_name = TopK[j].name
                 /\ ~rank.results[i].matches
                 /\ rank.results[i].reasoning # ""

\* C4: the judge is called only for candidates among the first top_k of the
\* retriever's list, at most once for each, so at most min(top_k, n) times
C4_BoundedClassification ==
    Done =>
        /\ JudgedNames \subseteq CandidateNames(TopK)
        /\ \A i, j \in 1..Len(rank.judged) :
              i # j => rank.judged[i] # rank.judged[j]
        /\ Len(rank.judged) <= Min(rank.top_k, Len(rank.candidates))
        /\ Len(rank.judged) <= Min(rank.top_k, count(QueriedView))

C4_Witness ==
    /\ Done
    /\ rank.top_k = 1
    /\ Len(rank.candidates) = 2
    /\ Len(rank.judged) = 1

\* C5: when no classifier call fails, exactly min(top_k, n) results carry a
\* rationale, n the number of identities stored in the queried view
C5_ExplainedCount ==
    (Done /\ NoCallFailed) =>
        Cardinality(Explained) = Min(rank.top_k, count(QueriedView))

\* C6: with top_k = 0 the judge is never called and every result has
\* matches = FALSE, no rationale and the score the retriever gave
C6_RankingOnly ==
    (Done /\ rank.top_k = 0) =>
        /\ rank.judged = <<>>
        /\ Len(rank.results) = Len(rank.candidates)
        /\ \A i \in 1..Len(rank.results) :
              /\ ~rank.results[i].matches
              /\ rank.results[i].reasoning = ""
              /\ rank.results[i].profile_name = rank.candidates[i].name
              /\ rank.results[i].similarity_score = rank.candidates[i].score

C6_Witness ==
    /\ Done
    /\ rank.top_k = 0
    /\ Len(rank.results) = 2
    /\ rank.results[1].similarity_score # rank.results[2].similarity_score
    /\ ~RecordMissing(rank.candidates[1].name)

\* C7: with top_k above the number of candidates the analysis returns what
\* it returns for top_k equal to that number, the judge answering the same
C7_Clamping ==
    (Done /\ rank.top_k > Len(rank.candidates)) =>
        LET atN == smart_analyze(rank.candidates, Len(rank.candidates),
                                 files, rank.reply)
        IN /\ rank.results = atN.results
           /\ rank.judged = atN.judged

C7_Witness ==
    /\ Done
    /\ rank.top_k > Len(rank.candidates)
    /\ Len(rank.judged) = 2
    /\ rank.results[1].matches

----------------------------------------------------------------------------
(* Properties of the assembled table *)

HasTable == table # NoTable
SameGroup(a, b) == a.matches = b.matches

\* C8: in the assembled ranking every result with matches = TRUE is before
\* every result with matches = FALSE
C8_Grouping ==
    HasTable =>
        /\ \A i, j \in 1..Len(table.sorted_results) :
              (table.sorted_results[i].matches
                 /\ ~table.sorted_results[j].matches) => i < j
        /\ \A i, j \in 1..Len(table.rows) :
              (table.rows[i].matches /\ ~table.rows[j].matches) => i < j

\* the judge matched the second candidate only, so the match is behind in
\* the classifier's list and in front in the table
C8_Witness ==
    /\ HasTable
    /\ Len(rank.results) = 2
    /\ ~rank.results[1].matches
    /\ rank.results[2].matches
    /\ table.sorted_results[1].matches

\* C9: inside the matched group and inside the unmatched group the better
\* score is first, the score being the store's distance (smaller is better)
C9_BestFirstInGroup ==
    HasTable =>
        \A i, j \in 1..Len(table.sorted_results) :
           (i < j /\ SameGroup(table.sorted_results[i], table.sorted_results[j]))
              => table.sorted_results[i].similarity_score
                    <= table.sorted_results[j].similarity_score

\* C10: every candidate behind the first top_k is in the output with
\* matches = FALSE, no rationale and the score the retriever gave it
C10_UnclassifiedKeepScore ==
    Done =>
        \A j \in 1..Len(rank.candidates) :
           j > rank.top_k =>
              \E i \in 1..Len(rank.results) :
                 /\ rank.results[i].profile_name = rank.candidates[j].name
                 /\ ~rank.results[i].matches
                 /\ rank.results[i].reasoning = ""
                 /\ rank.results[i].similarity_score = rank.candidates[j].score

C10_Witness ==
    /\ Done
    /\ rank.top_k = 1
    /\ Len(rank.judged) = 1
    /\ Len(rank.results) = 2
    /\ rank.results[1].matches
    /\ rank.results[2].similarity_score = MaxScore

\* C16: the assembled table has one data row per result it was given (as
\* many rows as the total it reports); no result is dropped without an error
C16_NoSilentLoss ==
    HasTable =>
        /\ Len(table.rows) = table.total_profiles
        /\ Len(table.rows) = Len(rank.results)

----------------------------------------------------------------------------
(* Properties of a failing query and of an emptied view *)

----------------------------------------------------------------------------
(* Properties of the history of index_profile and clear_all_indexes calls *)

IsIndex(e) == e.op = "index"
IsIndexOk(e) == e.op = "index" /\ e.outcome = "ok"
\* the call e wrote an entry into view v
Writes(e, v) ==
    /\ e.op = "index"
    /\ \/ e.outcome = "ok"
       \/ e.outcome = "fail_personal" /\ v = "professional"
\* the call e emptied view v
Clears(e, v) ==
    /\ e.op = "clear"
    /\ IF v = "professional" THEN e.prof_ok ELSE e.pers_ok

\* C11: index_profile called N >= 1 times in a row with the same record,
\* the first call returning, leaves count(view) of each view at its value
\* after the first call
C11_IdempotentIndexing ==
    \A i, j \in 1..Len(log) :
       (/\ i < j
        /\ IsIndexOk(log[i])
        /\ \A m \in i..j : IsIndex(log[m]) /\ log[m].name = log[i].name)
       => \A v \in Views : count(log[j].after[v]) = count(log[i].after[v])

\* the same record indexed MaxOps times, beside no other entry
C11_Witness ==
    /\ Len(log) = MaxOps
    /\ \A m \in 1..Len(log) : IsIndexOk(log[m]) /\ log[m].name = <<"a">>
    /\ count(prof) = 1
    /\ count(pers) = 1

\* C12: after indexing records only, into empty views, each view holds as
\* many entries as the names have distinct identities: A, B, C with A and B
\* of one identity and C of another leave 2 entries
C12_DedupByIdentity ==
    (\A m \in 1..Len(log) : IsIndexOk(log[m])) =>
        \A v \in Views :
           count(Index[v]) =
              Cardinality({Identity(log[m].name) : m \in 1..Len(log)})

\* "a", "a!" and "b" were indexed: two identities, two entries in each view
C12_Witness ==
    /\ Len(log) = 3
    /\ \A m \in 1..Len(log) : IsIndexOk(log[m])
    /\ log[1].name = <<"a">>
    /\ log[2].name = <<"a", "!">>
    /\ log[3].name = <<"b">>
    /\ Identity(log[1].name) = Identity(log[2].name)
    /\ Identity(log[3].name) # Identity(log[1].name)
    /\ count(prof) = 2
    /\ count(pers) = 2

\* the calls of the history that wrote or removed the entry of id in view v
Touches(v, id) ==
    {m \in 1..Len(log) :
        \/ Writes(log[m], v) /\ Identity(log[m].name) = id
        \/ Clears(log[m], v)}

Latest(S) == CHOOSE m \in S : \A n \in S : n <= m

\* what the history says view v holds for id: the document of the latest
\* index_profile call that wrote it, nothing after a clear
LastWrite(v, id) ==
    IF Touches(v, id) = {} THEN NoEntry
    ELSE LET e == log[Latest(Touches(v, id))]
         IN IF e.op = "clear" THEN NoEntry
            ELSE Document(MemberProfile(e.name))

\* C13: after any sequence of index_profile and clear_all_indexes calls a
\* view holds at most one entry per identity, and that entry is the document
\* of the latest index_profile call that wrote the identity into the view
C13_LastWriteWins ==
    \A v \in Views :
       /\ \A id \in Ids : Index[v][id] = LastWrite(v, id)
       /\ \A id \in Stored(Index[v]) : Identity(Index[v][id].name) = id
       /\ \A id1, id2 \in Stored(Index[v]) :
             Identity(Index[v][id1].name) = Identity(Index[v][id2].name)
                => id1 = id2

\* "a" was indexed, then "a!" of the same identity: the one entry is "a!"
C13_Witness ==
    /\ Len(log) >= 2
    /\ IsIndexOk(log[1]) /\ log[1].name = <<"a">>
    /\ IsIndexOk(log[2]) /\ log[2].name = <<"a", "!">>
    /\ \A m \in 1..Len(log) : m > 2 => log[m].op = "clear" /\ ~log[m].prof_ok
    /\ count(prof) = 1
    /\ prof[Identity(<<"a">>)] = Document(MemberProfile(<<"a", "!">>))

----------------------------------------------------------------------------
(* Properties of a batch indexing run *)

BatchDone == batch.status = "done"
BatchFiles == DOMAIN batch.outcome
BatchIds == {ProfileId(files[f]) : f \in BatchFiles}

\* C17: in a batch run a file whose indexing fails changes nothing but its
\* own entries; every file without error ends indexed in both views, entries
\* of identities outside the run stay as they were, and the returned count
\* is the number of files indexed without error
C17_BatchIsolation ==
    BatchDone =>
        /\ \A f \in BatchFiles :
              LET id == ProfileId(files[f])
                  doc == Document(files[f])
              IN /\ batch.outcome[f] = "ok" =>
                       (prof[id] = doc /\ pers[id] = doc)
                 /\ batch.outcome[f] = "fail_professional" =>
                       /\ prof[id] = batch.before.professional[id]
                       /\ pers[id] = batch.before.personal[id]
                 /\ batch.outcome[f] = "fail_personal" =>
                       /\ prof[id] = doc
                       /\ pers[id] = batch.before.personal[id]
        /\ \A id \in Ids \ BatchIds :
              /\ prof[id] = batch.before.professional[id]
              /\ pers[id] = batch.before.personal[id]
        /\ batch.indexed_count =
              Cardinality({f \in BatchFiles : batch.outcome[f] = "ok"})

\* one file failed, another one that was not indexed before the run is
\* indexed after it, and a third identity kept its entry
C17_Witness ==
    /\ BatchDone
    /\ batch.indexed_count = 1
    /\ \E f, g \in BatchFiles :
          /\ batch.outcome[f] = "fail_professional"
          /\ batch.outcome[g] = "ok"
          /\ batch.before.professional[ProfileId(files[g])] = NoEntry
          /\ prof[ProfileId(files[g])] = Document(files[g])
          /\ pers[ProfileId(files[g])] = Document(files[g])
          /\ prof[ProfileId(files[f])] = NoEntry

----------------------------------------------------------------------------
(* Properties of one search_similar call *)

SearchDone == search.status = "done"
HitIds == {Identity(search.hits[i].name) : i \in 1..Len(search.hits)}
\* position of the first hit of an identity in the store's answer
FirstHit(id) ==
    CHOOSE i \in 1..Len(search.hits) :
       /\ Identity(search.hits[i].name) = id
       /\ \A j \in 1..(i - 1) : Identity(search.hits[j].name) # id

\* C14: the candidate list holds each identity of the store's hits exactly
\* once, with the score of the first hit of that identity, in the order of
\* the first hits (k being large enough to keep them all)
C14_RetrieverDedup ==
    (SearchDone /\ search.k >= Len(search.hits)) =>
        /\ \A id \in HitIds :
              Cardinality({c \in 1..Len(search.candidates) :
                             Identity(search.candidates[c].name) = id}) = 1
        /\ \A c \in 1..Len(search.candidates) :
              /\ Identity(search.candidates[c].name) \in HitIds
              /\ search.candidates[c].score =
                    search.hits[FirstHit(
                       Identity(search.candidates[c].name))].score
        /\ \A c, d \in 1..Len(search.candidates) :
              c < d => FirstHit(Identity(search.candidates[c].name))
                          < FirstHit(Identity(search.candidates[d].name))

\* C15: the limit of the store query is at least the number of entries the
\* queried view holds at the time of the query
C15_QueryCoversView ==
    SearchDone => search.limit >= search.size

----------------------------------------------------------------------------
(* Properties of the judge's prompt *)

\* the facets in the text sent to the judge, beside the name
FacetsSent ==
    {judge.text[i].facet : i \in 1..Len(judge.text)} \ {"name"}

----------------------------------------------------------------------------
(* Properties of the two views together *)

\* C26: after any sequence of index_profile calls, failing ones included, an
\* identity is present in the professional view exactly when it is present
\* in the personal view
C26_CrossViewConsistency ==
    (\A m \in 1..Len(log) : IsIndex(log[m])) =>
        \A id \in Ids : (prof[id] # NoEntry) <=> (pers[id] # NoEntry)

----------------------------------------------------------------------------
(* Properties of the classified results *)

\* score the retriever gave to the candidate of that name
CandidateScore(name) ==
    (CHOOSE c \in {rank.candidates[i] : i \in 1..Len(rank.candidates)} :
        c.name = name).score

\* C27: every result the judge produced carries the name of the candidate it
\* was produced for and that candidate's retrieval score, whatever record
\* the repository returns for that name
C27_IdentityPreserved ==
    Done =>
        \A i \in 1..Len(rank.judged) :
           /\ rank.results[i].profile_name = rank.judged[i]
           /\ rank.results[i].similarity_score = CandidateScore(rank.judged[i])

----------------------------------------------------------------------------
(* Properties of the assembler over reordered inputs *)

\* the lists holding the same results as s in any order
Reorderings(s) ==
    {[i \in 1..Len(s) |-> s[p[i]]] :
        p \in {q \in [1..Len(s) -> 1..Len(s)] :
                 \A i, j \in 1..Len(s) : i # j => q[i] # q[j]}}

\* C24: the assembler gives the same output order for every input list
\* holding the same results in a different order
C24_OrderIndependence ==
    HasTable =>
        \A other \in Reorderings(rank.results) :
           prepare_table_data(other, files).sorted_results
              = table.sorted_results

----------------------------------------------------------------------------
(* Properties of re-indexing after a clearing *)

AfterClear == BatchDone /\ batch.clear # NoClear
AllIndexed == \A f \in BatchFiles : batch.outcome[f] = "ok"
RepositoryIds == {ProfileId(files[f]) : f \in ExistingFiles(files)}

\* C21: whatever clear_all_indexes left, a view whose deletion failed
\* included, batch_index_all_profiles indexing every repository record
\* brings each view to exactly the identities of the repository's records,
\* each with the entry of its record
C21_RecoverableClear ==
    (AfterClear /\ AllIndexed) =>
        /\ \A v \in Views : Stored(Index[v]) = RepositoryIds
        /\ \A f \in BatchFiles :
              /\ prof[ProfileId(files[f])] = Document(files[f])
              /\ pers[ProfileId(files[f])] = Document(files[f])

\* the deletion failed for the professional view, which kept an entry that
\* is not its record's, while the personal view was emptied; two records
\* were re-indexed
C21_Witness ==
    /\ AfterClear /\ AllIndexed
    /\ ~batch.clear.prof_ok /\ batch.clear.pers_ok
    /\ Cardinality(BatchFiles) = 2
    /\ batch.before.personal = EmptyView
    /\ \E f \in BatchFiles :
          /\ batch.before.professional[ProfileId(files[f])] # NoEntry
          /\ batch.before.professional[ProfileId(files[f])] # Document(files[f])
    /\ \A v \in Views : Stored(Index[v]) = RepositoryIds

----------------------------------------------------------------------------
(* Properties of concurrent index_profile calls *)

BothFinished == \A c \in Callers : upsert.pc[c] = "done"
SameIdentity ==
    /\ ProfileId(upsert.profile[1]) = ProfileId(upsert.profile[2])
    /\ upsert.profile[1] # upsert.profile[2]
LastFinished == upsert.profile[upsert.finished[Len(upsert.finished)]]

\* C22: when two index_profile calls for one identity and different records
\* ran concurrently and both returned, both views hold for that identity the
\* entry of the call that returned last
C22_ConcurrentUpserts ==
    (BothFinished /\ SameIdentity) =>
        /\ prof[ProfileId(LastFinished)] = Document(LastFinished)
        /\ pers[ProfileId(LastFinished)] = Document(LastFinished)

----------------------------------------------------------------------------
(* Properties of sanitize_filename *)

Normalized == norm.status = "returned"
Alphanumeric(c) == c \in WordChars \ {"_"}
\* alphanumeric characters joined by single separators, none at the ends
WellJoined(s) ==
    /\ \A i \in 1..Len(s) : Alphanumeric(s[i]) \/ s[i] = "_"
    /\ s # <<>> => (s[1] # "_" /\ s[Len(s)] # "_")
    /\ \A i \in 1..(Len(s) - 1) : ~(s[i] = "_" /\ s[i + 1] = "_")

\* C25: the identity sanitize_filename computes is made of alphanumeric
\* characters joined by single separator characters, none leading or
\* trailing, and is at most max_length characters long
C25_IdentityNormalization ==
    Normalized =>
        /\ WellJoined(norm.safe_name)
        /\ Len(norm.safe_name) <= norm.max_length

----------------------------------------------------------------------------
(* Properties of the cache report *)

\* C30: whenever process_batch_images reports a profile as loaded from the
\* cache, and so as already indexed, the profile's identity is present in
\* both views
C30_CachedIsIndexed ==
    cache.status = "reported" =>
        /\ prof[ProfileId(cache.profile)] # NoEntry
        /\ pers[ProfileId(cache.profile)] # NoEntry

----------------------------------------------------------------------------
(* Properties of the chat session *)

Analysing == chat.run.status = "analysing"
Confirming == chat.state = "confirming_analysis"

C29_ConfirmedEnds ==
    Analysing ~> (/\ chat.run.status = "ended"
                  /\ chat.state = "none"
                  /\ chat.csv # "on_disk")

----------------------------------------------------------------------------
(* Properties of a rank call whose judge hangs *)

Hung == call.status = "awaiting" /\ call.hangs
Returned == call.status = "returned"

\* C23: when a judge call never returns, the rank call still eventually
\* returns
C23_ClassifierTimeout == Hung ~> Returned

====
